---- MODULE Spec2Model ----
(***************************************************************************)
(* Model of the Livox lidar nodes: bev_pub (decode, z-filter, project to   *)
(* bird's-eye view, encode, publish) and livox_scan2 (decode, summarise).  *)
(* Floats are modelled by their IEEE-754 bit fields, so that decoding and  *)
(* encoding are computed from the bytes and are not the identity.          *)
(***************************************************************************)
EXTENDS Integers, Sequences, FiniteSets

(* ---------------------------- bounds ---------------------------------- *)
MaxPts == 2
MaxTail == 1
MaxRamp == 36
MaxFrames == 2

(* ------------------------ program constants --------------------------- *)
POINT_SIZE == 26
FIRST_POINTS == 5
LINE_LIMIT == 10

(* ------------------------- IEEE-754 helpers --------------------------- *)
\* f32::from_le_bytes: b is the 4-byte little-endian image
f32_from_le_bytes(b) ==
    [s |-> b[4] \div 128,
     e |-> (b[4] % 128) * 2 + (b[3] \div 128),
     m |-> (b[3] % 128) * 65536 + b[2] * 256 + b[1]]

\* f32::to_le_bytes
f32_to_be_bytes(f) ==
    << f.s * 128 + (f.e \div 2),
       (f.e % 2) * 128 + (f.m \div 65536),
       (f.m \div 256) % 256,
       f.m % 256 >>

f32_to_le_bytes(f) ==
    << f.m % 256,
       (f.m \div 256) % 256,
       (f.e % 2) * 128 + (f.m \div 65536),
       f.s * 128 + (f.e \div 2) >>

\* f64::from_le_bytes: the 52-bit mantissa is kept as high 28 / low 24 bits
f64_from_le_bytes(b) ==
    [s  |-> b[8] \div 128,
     e  |-> (b[8] % 128) * 16 + (b[7] \div 16),
     mh |-> (b[7] % 16) * 16777216 + b[6] * 65536 + b[5] * 256 + b[4],
     ml |-> b[3] * 65536 + b[2] * 256 + b[1]]

\* f64::to_le_bytes
f64_to_le_bytes(f) ==
    << f.ml % 256,
       (f.ml \div 256) % 256,
       f.ml \div 65536,
       f.mh % 256,
       (f.mh \div 256) % 256,
       (f.mh \div 65536) % 256,
       (f.e % 16) * 16 + (f.mh \div 16777216),
       f.s * 128 + (f.e \div 16) >>

F32IsNaN(f) == f.e = 255 /\ f.m # 0

\* signed magnitude order key of a non-NaN f32 (-0.0 and 0.0 both 0)
F32Key(f) == IF f.s = 0 THEN f.e * 8388608 + f.m ELSE 0 - (f.e * 8388608 + f.m)

\* IEEE comparisons: false when either side is NaN
F32Ge(a, b) == ~F32IsNaN(a) /\ ~F32IsNaN(b) /\ F32Key(a) >= F32Key(b)
F32Le(a, b) == ~F32IsNaN(a) /\ ~F32IsNaN(b) /\ F32Key(a) <= F32Key(b)
F32Lt(a, b) == ~F32IsNaN(a) /\ ~F32IsNaN(b) /\ F32Key(a) < F32Key(b)

\* f32::min / f32::max: a NaN argument yields the other argument
F32Min(a, b) == IF F32IsNaN(a) THEN b
                ELSE IF F32IsNaN(b) THEN a
                ELSE IF F32Lt(b, a) THEN b ELSE a
F32Max(a, b) == IF F32IsNaN(a) THEN b
                ELSE IF F32IsNaN(b) THEN a
                ELSE IF F32Lt(a, b) THEN b ELSE a

F32_INFINITY == [s |-> 0, e |-> 255, m |-> 0]
F32_NEG_INFINITY == [s |-> 1, e |-> 255, m |-> 0]
F32_ZERO == [s |-> 0, e |-> 0, m |-> 0]
\* the literals -0.1 and 0.2 as f32 (0xBDCCCCCD, 0x3E4CCCCD)
Z_LOW == [s |-> 1, e |-> 123, m |-> 5033165]
Z_HIGH == [s |-> 0, e |-> 124, m |-> 5033165]

(* --------------------------- RecordCodec ------------------------------ *)
\* Rust slice indexing data[idx] (0-based)
At(data, idx) == data[idx + 1]

Bytes4(data, o) == << At(data, o), At(data, o + 1), At(data, o + 2), At(data, o + 3) >>
Bytes8(data, o) == << At(data, o), At(data, o + 1), At(data, o + 2), At(data, o + 3),
                      At(data, o + 4), At(data, o + 5), At(data, o + 6), At(data, o + 7) >>

\* the length guard of from_bytes
TooShortStrict(data, offset) == offset + POINT_SIZE >= Len(data)

TooShortOffByOne(data, offset) == offset + 25 > Len(data)

TooShort(data, offset) == offset + POINT_SIZE > Len(data)

\* the byte indices from_bytes indexes at this offset (none after the early return)
IndicesRead(data, offset) ==
    IF TooShort(data, offset) THEN {} ELSE { offset + k : k \in 0..25 }

\* LidarPoint::from_bytes; an index outside the slice is a panic
from_bytes(data, offset) ==
    IF TooShort(data, offset) THEN [tag |-> "None"]
    ELSE IF \E idx \in IndicesRead(data, offset) : idx >= Len(data)
         THEN [tag |-> "Panic"]
    ELSE [tag |-> "Some",
          point |-> [x |-> f32_from_le_bytes(Bytes4(data, offset)),
                     y |-> f32_from_le_bytes(Bytes4(data, offset + 4)),
                     z |-> f32_from_le_bytes(Bytes4(data, offset + 8)),
                     intensity |-> f32_from_le_bytes(Bytes4(data, offset + 12)),
                     tag |-> At(data, offset + 16),
                     line |-> At(data, offset + 17),
                     timestamp |-> f64_from_le_bytes(Bytes8(data, offset + 18))]]

\* LidarPoint::to_bev
to_bev(p) ==
    [x |-> p.x, y |-> p.y, z |-> F32_ZERO, intensity |-> p.intensity,
     tag |-> p.tag, line |-> p.line, timestamp |-> p.timestamp]

\* BevPoint::to_bytes
to_bytes_no_z(b) ==
    f32_to_le_bytes(b.x) \o f32_to_le_bytes(b.y)
      \o f32_to_le_bytes(b.intensity) \o << b.tag, b.line >>
      \o f64_to_le_bytes(b.timestamp)

to_bytes_line_first(b) ==
    f32_to_le_bytes(b.x) \o f32_to_le_bytes(b.y) \o f32_to_le_bytes(b.z)
      \o f32_to_le_bytes(b.intensity) \o << b.line, b.tag >>
      \o f64_to_le_bytes(b.timestamp)

to_bytes(b) ==
    f32_to_le_bytes(b.x) \o f32_to_le_bytes(b.y) \o f32_to_le_bytes(b.z)
      \o f32_to_le_bytes(b.intensity) \o << b.tag, b.line >>
      \o f64_to_le_bytes(b.timestamp)


(* --------------------------- input frames ----------------------------- *)
\* little-endian images used to build sample frames
X_ONE == << 0, 0, 128, 63 >>
Y_TWO == << 0, 0, 0, 64 >>
Y_NEG == << 255, 255, 127, 255 >>
I_HUNDRED == << 0, 0, 200, 66 >>
T_STAMP == << 119, 190, 159, 26, 47, 221, 94, 64 >>

SampleRecord(y, z, tag, line) ==
    X_ONE \o y \o z \o I_HUNDRED \o << tag, line >> \o T_STAMP

\* z = 0.05, 0.2, just above 0.2, -0.1, NaN, -0.0
Palette ==
    { SampleRecord(Y_TWO, << 205, 204, 76, 61 >>, 1, 3),
      SampleRecord(Y_TWO, << 205, 204, 76, 62 >>, 0, 0),
      SampleRecord(Y_NEG, << 206, 204, 76, 62 >>, 1, 1),
      SampleRecord(Y_TWO, << 205, 204, 204, 189 >>, 2, 3),
      SampleRecord(Y_TWO, << 0, 0, 192, 127 >>, 255, 1),
      SampleRecord(Y_NEG, << 0, 0, 0, 128 >>, 0, 255) }

RECURSIVE Flatten(_)
Flatten(ss) == IF ss = << >> THEN << >> ELSE Head(ss) \o Flatten(Tail(ss))

RecordSeqs == UNION { [1..n -> Palette] : n \in 0..MaxPts }
TailBytes(t) == [k \in 1..t |-> 255]
Ramp(n) == [k \in 1..n |-> (k - 1) % 256]

RecordBuffers == { Flatten(rs) \o TailBytes(t) : rs \in RecordSeqs, t \in 0..MaxTail }
RampBuffers == { Ramp(n) : n \in 35..MaxRamp }

Strides == { 13, 26, 27 }
FrameIds == { << "l", "i", "v", "o", "x" >> }
BEV_SUFFIX == << "_", "b", "e", "v" >>

Frame(f, s, d) ==
    [header |-> [stamp |-> [sec |-> 1, nanosec |-> 5], frame_id |-> f],
     point_step |-> s, data |-> d]

\* sample frames at every stride, byte ramps also at stride 1
Frames ==
    { Frame(f, s, d) : f \in FrameIds, s \in Strides, d \in RecordBuffers }
      \cup { Frame(f, s, d) : f \in FrameIds, s \in Strides \cup {1}, d \in RampBuffers }

NoFrame ==
    [header |-> [stamp |-> [sec |-> 0, nanosec |-> 0], frame_id |-> << >>],
     point_step |-> 0, data |-> << >>]

(* ------------------------------ state --------------------------------- *)
VARIABLES
    node,        \* which binary runs: "bev_pub" or "livox_scan2"
    pc,          \* position of the subscription callback
    msg,         \* the frame the callback was invoked with
    i,           \* next offset of (0..data.len()).step_by(point_step)
    points,      \* parse_pointcloud2's Vec<LidarPoint>
    visited,     \* the loop iterations made so far: offset and outcome
    reads,       \* the byte indices the latest iteration indexed
    bev_points,  \* the filtered and projected points
    out,         \* the message handed to publisher.publish
    result,      \* what publish returned
    printed,     \* what print_point_cloud_summary wrote
    received,    \* frames delivered to the callback
    attempts,    \* calls of publisher.publish
    failed       \* the closure reported an error for an earlier frame

vars == << node, pc, msg, i, points, visited, reads, bev_points, out, result, printed,
           received, attempts, failed >>

NoOut ==
    [header |-> NoFrame.header, height |-> 0, width |-> 0, fields |-> << >>,
     is_bigendian |-> FALSE, point_step |-> 0, row_step |-> 0, data |-> << >>,
     is_dense |-> FALSE]

NoSummary ==
    [total |-> 0, first |-> << >>, more |-> 0, has_stats |-> FALSE,
     stats |-> << >>, lines |-> << >>, more_lines |-> 0]

Init ==
    /\ node \in { "bev_pub", "livox_scan2" }
    /\ pc = "idle"
    /\ msg = NoFrame
    /\ i = 0
    /\ points = << >>
    /\ visited = << >>
    /\ reads = {}
    /\ bev_points = << >>
    /\ out = NoOut
    /\ result = "none"
    /\ printed = NoSummary
    /\ received = 0
    /\ attempts = 0
    /\ failed = FALSE

(* ------------------------- parse_pointcloud2 -------------------------- *)
\* the subscription callback is invoked with a frame; parse_pointcloud2 starts
Subscription ==
    /\ pc = "idle"
    /\ received < MaxFrames
    /\ \E m \in Frames :
          /\ msg' = m
          /\ pc' = IF 0 < Len(m.data) THEN "scan" ELSE "parsed"
    /\ received' = received + 1
    /\ i' = 0
    /\ points' = << >>
    /\ visited' = << >>
    /\ reads' = {}
    /\ UNCHANGED << node, bev_points, out, result, printed, attempts, failed >>

\* what one iteration of the for loop pushes
Push(pts, r) == IF r.tag = "Some" THEN Append(pts, r.point) ELSE pts

\* the offset the step_by iterator yields next
NextOffsetFixed(offset, point_step) == offset + POINT_SIZE

NextOffset(offset, point_step) == offset + point_step

\* one iteration of the for loop of parse_pointcloud2
ParseStep ==
    /\ pc = "scan"
    /\ LET r == from_bytes(msg.data, i)
           n == NextOffset(i, msg.point_step)
       IN /\ points' = Push(points, r)
          /\ visited' = Append(visited, [offset |-> i, some |-> r.tag = "Some"])
          /\ reads' = IndicesRead(msg.data, i)
          /\ i' = n
          /\ pc' = IF r.tag = "Panic" THEN "panic"
                   ELSE IF n < Len(msg.data) THEN "scan" ELSE "parsed"
    /\ UNCHANGED << node, msg, bev_points, out, result, printed, received,
                    attempts, failed >>


(* ------------------------------ bev_pub ------------------------------- *)
\* the closure of .filter(): point.z >= -0.1 && point.z <= 0.2
ZFilterExclusive(p) == F32Lt(Z_LOW, p.z) /\ F32Lt(p.z, Z_HIGH)

ZFilter(p) == F32Ge(p.z, Z_LOW) /\ F32Le(p.z, Z_HIGH)

\* lidar_points.into_iter().filter(..).map(|point| point.to_bev()).collect()
RECURSIVE FilterMap(_)
FilterMap(pts) ==
    IF pts = << >> THEN << >>
    ELSE (IF ZFilter(Head(pts)) THEN << to_bev(Head(pts)) >> ELSE << >>)
           \o FilterMap(Tail(pts))

\* the PointField entries pushed by create_bev_pointcloud2
Fields ==
    << [name |-> "x", offset |-> 0, datatype |-> 7, count |-> 1],
       [name |-> "y", offset |-> 4, datatype |-> 7, count |-> 1],
       [name |-> "z", offset |-> 8, datatype |-> 7, count |-> 1],
       [name |-> "intensity", offset |-> 12, datatype |-> 7, count |-> 1],
       [name |-> "tag", offset |-> 16, datatype |-> 2, count |-> 1],
       [name |-> "line", offset |-> 17, datatype |-> 2, count |-> 1],
       [name |-> "timestamp", offset |-> 18, datatype |-> 8, count |-> 1] >>

\* for point in points.iter() { data.extend_from_slice(&point.to_bytes()) }
RECURSIVE ExtendAll(_)
ExtendAll(pts) ==
    IF pts = << >> THEN << >> ELSE to_bytes(Head(pts)) \o ExtendAll(Tail(pts))

\* format!("{}_bev", original_header.frame_id)
FormatBevPrefix(frame_id) == BEV_SUFFIX \o frame_id

FormatBev(frame_id) == frame_id \o BEV_SUFFIX

\* create_bev_pointcloud2 (the u32 casts do not wrap within the bounds)
create_bev_pointcloud2(pts, original_header) ==
    [header |-> [original_header EXCEPT !.frame_id = FormatBev(original_header.frame_id)],
     height |-> 1,
     width |-> Len(pts),
     fields |-> Fields,
     is_bigendian |-> FALSE,
     point_step |-> POINT_SIZE,
     row_step |-> Len(pts) * POINT_SIZE,
     data |-> ExtendAll(pts),
     is_dense |-> TRUE]

\* process_and_publish_bev after parsing: filter, project, build the message,
\* publish it; the transport answers res
ProcessAndPublishBev(res) ==
    /\ pc = "parsed"
    /\ node = "bev_pub"
    /\ LET bev == FilterMap(points)
       IN /\ bev_points' = bev
          /\ out' = create_bev_pointcloud2(bev, msg.header)
          /\ attempts' = attempts + 1
          /\ result' = res
    /\ pc' = "done"
    /\ UNCHANGED << node, msg, i, points, visited, reads, printed, received, failed >>


(* ---------------------------- livox_scan2 ----------------------------- *)
Take(seq, n) == SubSeq(seq, 1, IF Len(seq) < n THEN Len(seq) ELSE n)

\* values.iter().fold(f32::INFINITY, |a, &b| a.min(b))
RECURSIVE FoldMin(_, _)
FoldMin(vals, acc) ==
    IF vals = << >> THEN acc ELSE FoldMin(Tail(vals), F32Min(acc, Head(vals)))

\* values.iter().fold(f32::NEG_INFINITY, |a, &b| a.max(b))
RECURSIVE FoldMax(_, _)
FoldMax(vals, acc) ==
    IF vals = << >> THEN acc ELSE FoldMax(Tail(vals), F32Max(acc, Head(vals)))

Range(vals) == << FoldMin(vals, F32_INFINITY), FoldMax(vals, F32_NEG_INFINITY) >>

\* *line_counts.entry(point.line).or_insert(0) += 1, for every point
RECURSIVE CountLines(_, _)
CountLines(pts, counts) ==
    IF pts = << >> THEN counts
    ELSE LET l == Head(pts).line
         IN CountLines(Tail(pts),
                [k \in DOMAIN counts \cup {l} |->
                    IF k \in DOMAIN counts
                    THEN (IF k = l THEN counts[k] + 1 ELSE counts[k])
                    ELSE 1])

EmptyMap == [k \in {} |-> 0]

\* lines.sort_by_key(|&(line, _)| line) over the HashMap's entries
RECURSIVE SortedKeysDescending(_)
SortedKeysDescending(S) ==
    IF S = {} THEN << >>
    ELSE LET mx == CHOOSE x \in S : \A y \in S : y <= x
         IN << mx >> \o SortedKeysDescending(S \ {mx})

RECURSIVE SortedKeys(_)
SortedKeys(S) ==
    IF S = {} THEN << >>
    ELSE LET mn == CHOOSE x \in S : \A y \in S : x <= y
         IN << mn >> \o SortedKeys(S \ {mn})

SortedLines(counts) ==
    LET keys == SortedKeys(DOMAIN counts)
    IN [k \in 1..Len(keys) |-> << keys[k], counts[keys[k]] >>]

\* the guard around the detail and statistics sections
ReportsDetailsAlways(pts) == TRUE

ReportsDetails(pts) == pts # << >>

\* what print_point_cloud_summary writes for the parsed points
print_point_cloud_summary(pts) ==
    IF ReportsDetails(pts)
    THEN LET lines == SortedLines(CountLines(pts, EmptyMap))
         IN [total |-> Len(pts),
             first |-> Take(pts, FIRST_POINTS),
             more |-> IF Len(pts) > FIRST_POINTS THEN Len(pts) - FIRST_POINTS ELSE 0,
             has_stats |-> TRUE,
             stats |-> << Range([k \in 1..Len(pts) |-> pts[k].x]),
                          Range([k \in 1..Len(pts) |-> pts[k].y]),
                          Range([k \in 1..Len(pts) |-> pts[k].z]),
                          Range([k \in 1..Len(pts) |-> pts[k].intensity]) >>,
             lines |-> Take(lines, LINE_LIMIT),
             more_lines |-> IF Len(lines) > LINE_LIMIT THEN Len(lines) - LINE_LIMIT ELSE 0]
    ELSE [NoSummary EXCEPT !.total = Len(pts)]

\* the callback of livox_scan2 after parsing
PrintSummary ==
    /\ pc = "parsed"
    /\ node = "livox_scan2"
    /\ printed' = print_point_cloud_summary(points)
    /\ pc' = "done"
    /\ UNCHANGED << node, msg, i, points, visited, reads, bev_points, out, result,
                    received, attempts, failed >>

(* ------------------------ callback return ----------------------------- *)
\* the closure returns (bev_pub reports an Err on stderr); its locals are dropped
CallbackReturn ==
    /\ pc = "done"
    /\ failed' = (failed \/ result = "Err")
    /\ pc' = "idle"
    /\ msg' = NoFrame
    /\ i' = 0
    /\ points' = << >>
    /\ visited' = << >>
    /\ reads' = {}
    /\ bev_points' = << >>
    /\ out' = NoOut
    /\ result' = "none"
    /\ printed' = NoSummary
    /\ UNCHANGED << node, received, attempts >>

Next ==
    \/ Subscription
    \/ ParseStep
    \/ \E res \in { "Ok", "Err" } : ProcessAndPublishBev(res)
    \/ PrintSummary
    \/ CallbackReturn

Spec == Init /\ [][Next]_vars


(* ====================== properties of the nodes ======================= *)
Parsed == pc \in { "parsed", "done" }
BevDone == node = "bev_pub" /\ pc = "done"
ScanDone == node = "livox_scan2" /\ pc = "done"

\* number of offsets k*stride, k >= 0, with k*stride + 26 <= len
WholeRecords(len, stride) ==
    IF len < POINT_SIZE THEN 0 ELSE ((len - POINT_SIZE) \div stride) + 1

\* the 26 bytes starting at 0-based offset o
Slice(data, o) == SubSeq(data, o + 1, o + POINT_SIZE)

\* the records a frame holds, one per whole 26-byte range at a multiple of the stride
DecodeAll(m) ==
    [k \in 1..WholeRecords(Len(m.data), m.point_step) |->
        from_bytes(Slice(m.data, (k - 1) * m.point_step), 0).point]

InWindow(z, lo, hi) == F32Le(lo, z) /\ F32Le(z, hi)

\* bev is exactly the records of pts with lo <= z <= hi, in order, z replaced by 0.0
IsProjection(pts, bev, lo, hi) ==
    LET kept == { k \in 1..Len(pts) : InWindow(pts[k].z, lo, hi) }
        rank(k) == Cardinality({ j \in kept : j <= k })
    IN /\ Len(bev) = Cardinality(kept)
       /\ \A k \in kept :
            /\ bev[rank(k)].z = F32_ZERO
            /\ bev[rank(k)] = [pts[k] EXCEPT !.z = F32_ZERO]

(* C1 as stated: when the buffer length is not a multiple of the stride, the
   decoder returns exactly floor(length / stride) records. *)
C1_FloorOfLengthByStride ==
    (pc = "parsed" /\ Len(msg.data) % msg.point_step # 0)
        => Len(points) = Len(msg.data) \div msg.point_step

(* C1, amended: the decoder returns one record per scanned offset k*stride with
   k*stride + 26 <= length: none for a buffer shorter than 26 bytes, otherwise
   floor((length - 26) / stride) + 1; at stride 26 that is floor(length / 26),
   the trailing bytes being ignored. *)
C1_RecordCount ==
    pc = "parsed" =>
        /\ Len(points) = WholeRecords(Len(msg.data), msg.point_step)
        /\ msg.point_step = POINT_SIZE => Len(points) = Len(msg.data) \div POINT_SIZE

C1_Witness ==
    /\ pc = "parsed"
    /\ msg.point_step = POINT_SIZE
    /\ Len(msg.data) % POINT_SIZE # 0
    /\ Len(points) >= 2

(* C2: decoding never faults: the scan makes finitely many iterations (at most
   one per byte of the buffer, at strictly increasing offsets), and every byte
   index read while decoding at offset o lies in [o, o+26) and inside the
   buffer; short and empty buffers yield no record. *)
C2_NoOutOfBoundsRead ==
    /\ pc # "panic"
    /\ \A idx \in reads : idx >= 0 /\ idx < Len(msg.data)
    /\ visited # << >> =>
          \A idx \in reads : /\ idx >= visited[Len(visited)].offset
                             /\ idx < visited[Len(visited)].offset + POINT_SIZE
    /\ Len(visited) <= Len(msg.data)
    /\ \A k \in 1..Len(visited) :
          /\ visited[k].offset < Len(msg.data)
          /\ k > 1 => visited[k].offset > visited[k - 1].offset
    /\ pc = "scan" => i < Len(msg.data)
    /\ Parsed => i >= Len(msg.data)
    /\ Len(msg.data) < POINT_SIZE => points = << >>

C2_Witness ==
    /\ pc = "parsed"
    /\ points # << >>
    /\ ~visited[Len(visited)].some
    /\ Len(msg.data) - 1 \notin reads

(* C3 as stated: for any filter window given as input, the projected sequence
   is exactly the records inside that window, in order, with z replaced by 0.0. *)
C3_Windows == { << Z_LOW, Z_HIGH >>, << F32_ZERO, Z_HIGH >> }

C3_AnyWindow ==
    BevDone => \A w \in C3_Windows : IsProjection(points, bev_points, w[1], w[2])

(* C3, amended: the window is the fixed [-0.1, 0.2] (as f32): the projected
   sequence is, in original relative order, exactly the records with
   -0.1 <= z <= 0.2 (both inclusive), each with z replaced by 0.0 and the other
   six fields unchanged. *)
C3_FixedWindow ==
    BevDone => IsProjection(points, bev_points, Z_LOW, Z_HIGH)

C3_Witness ==
    /\ BevDone
    /\ \E k \in 1..Len(points) :
          InWindow(points[k].z, Z_LOW, Z_HIGH) /\ points[k].z # F32_ZERO
    /\ \E k \in 1..Len(points) : ~InWindow(points[k].z, Z_LOW, Z_HIGH)
    /\ \E k \in 1..Len(points) : points[k].z = Z_HIGH

(* C4: the published frame has width = number of BEV records, 26 bytes of data
   per record, point_step 26, row_step = width * point_step and height 1,
   whatever stride the input frame declared, also for no records. *)
C4_Cardinality ==
    BevDone =>
        /\ out.width = Len(bev_points)
        /\ Len(out.data) = Len(bev_points) * 26
        /\ out.point_step = 26
        /\ out.row_step = out.width * out.point_step
        /\ out.height = 1
        /\ bev_points = << >> => (out.width = 0 /\ out.data = << >>)

C4_Witness ==
    /\ BevDone
    /\ msg.point_step # 26
    /\ Len(bev_points) >= 2

(* C5: encode and decode are inverse on the 26-byte layout: every record encodes
   to exactly 26 bytes that decode (at offset 0) to the same seven fields, and
   every decoded 26-byte slice is reproduced byte for byte by encoding the
   record decoded from it. *)
C5_RoundTrip ==
    /\ \A k \in 1..Len(points) :
          /\ Len(to_bytes(points[k])) = 26
          /\ from_bytes(to_bytes(points[k]), 0) = [tag |-> "Some", point |-> points[k]]
          /\ visited[k].some
          /\ to_bytes(points[k]) = Slice(msg.data, visited[k].offset)
    /\ \A j \in 1..Len(bev_points) :
          /\ Len(to_bytes(bev_points[j])) = 26
          /\ from_bytes(to_bytes(bev_points[j]), 0).point = bev_points[j]

C5_Witness ==
    /\ pc = "done"
    /\ bev_points # << >>
    /\ \E k \in 1..Len(points) : F32IsNaN(points[k].z)
    /\ \E k \in 1..Len(points) : points[k].y.s = 1


(* C6: a frame that decodes to zero records gets no statistics at all, so the
   folds' initial +infinity / -infinity are never reported as a minimum or a
   maximum; and an empty buffer decodes to the empty sequence without a single
   loop iteration. *)
C6_EmptyInputSafety ==
    /\ (ScanDone /\ points = << >>) =>
          /\ printed.total = 0
          /\ ~printed.has_stats
          /\ \A k \in 1..Len(printed.stats) :
                /\ printed.stats[k][1] # F32_INFINITY
                /\ printed.stats[k][2] # F32_NEG_INFINITY
          /\ printed.lines = << >>
    /\ (Parsed /\ msg.data = << >>) => (points = << >> /\ visited = << >>)

C6_Witness ==
    /\ ScanDone
    /\ msg.data = << >>
    /\ msg.point_step = 26
    /\ printed.total = 0

\* byte width of a PointField datatype code: 2 = uint8, 7 = float32, 8 = float64
FieldWidth(datatype) ==
    IF datatype = 2 THEN 1 ELSE IF datatype = 7 THEN 4 ELSE 8

FieldRange(d) == d.offset .. (d.offset + FieldWidth(d.datatype) * d.count - 1)

\* the value a consumer reads for descriptor d from the record at 0-based offset base
ReadField(data, base, d) ==
    IF d.datatype = 2 THEN data[base + d.offset + 1]
    ELSE IF d.datatype = 7
         THEN f32_from_le_bytes(SubSeq(data, base + d.offset + 1, base + d.offset + 4))
    ELSE f64_from_le_bytes(SubSeq(data, base + d.offset + 1, base + d.offset + 8))

FieldOf(rec, name) ==
    CASE name = "x" -> rec.x
      [] name = "y" -> rec.y
      [] name = "z" -> rec.z
      [] name = "intensity" -> rec.intensity
      [] name = "tag" -> rec.tag
      [] name = "line" -> rec.line
      [] name = "timestamp" -> rec.timestamp

C7_Layout ==
    << << "x", 0, 7 >>, << "y", 4, 7 >>, << "z", 8, 7 >>, << "intensity", 12, 7 >>,
       << "tag", 16, 2 >>, << "line", 17, 2 >>, << "timestamp", 18, 8 >> >>

(* C7: every published frame carries the same seven descriptors, in order
   (x@0, y@4, z@8, intensity@12 of type 7, tag@16, line@17 of type 2,
   timestamp@18 of type 8, count 1); their byte ranges are pairwise disjoint
   and tile [0, 26); and reading each descriptor's range gives that field of
   the record, both in the bytes encode wrote and in the bytes decode read. *)
C7_FieldDescriptors ==
    BevDone =>
        /\ Len(out.fields) = 7
        /\ \A f \in 1..7 :
              /\ << out.fields[f].name, out.fields[f].offset, out.fields[f].datatype >>
                    = C7_Layout[f]
              /\ out.fields[f].count = 1
        /\ \A f, g \in 1..7 :
              f # g => FieldRange(out.fields[f]) \cap FieldRange(out.fields[g]) = {}
        /\ UNION { FieldRange(out.fields[f]) : f \in 1..7 } = 0..25
        /\ \A j \in 1..Len(bev_points) : \A f \in 1..7 :
              ReadField(out.data, (j - 1) * out.point_step, out.fields[f])
                  = FieldOf(bev_points[j], out.fields[f].name)
        /\ \A k \in 1..Len(points) : \A f \in 1..7 :
              ReadField(msg.data, visited[k].offset, out.fields[f])
                  = FieldOf(points[k], out.fields[f].name)

C7_Witness ==
    /\ BevDone
    /\ Len(bev_points) >= 2
    /\ \E j \in 1..Len(bev_points) : bev_points[j].tag # bev_points[j].line
    /\ bev_points[1] # bev_points[2]

(* C8: the scan visits offsets 0, stride, 2*stride, ... in ascending order; the
   offset k*stride emits a record exactly when k*stride + 26 <= length, and the
   k-th record is the decoding of bytes [k*stride, k*stride + 26); records are
   in scan order and after the first offset that fails no later one emits,
   also for overlapping ranges (stride < 26). *)
C8_ScanOrder ==
    /\ \A k \in 1..Len(visited) :
          /\ visited[k].offset = (k - 1) * msg.point_step
          /\ visited[k].some <=> (visited[k].offset + 26 <= Len(msg.data))
          /\ \A j \in 1..(k - 1) : ~visited[j].some => ~visited[k].some
    /\ Len(points) = Cardinality({ k \in 1..Len(visited) : visited[k].some })
    /\ \A k \in 1..Len(points) :
          /\ visited[k].some
          /\ points[k] = from_bytes(Slice(msg.data, (k - 1) * msg.point_step), 0).point
    /\ Parsed => Len(visited) * msg.point_step >= Len(msg.data)

C8_Witness ==
    /\ pc = "parsed"
    /\ msg.point_step < 26
    /\ Len(points) >= 2
    /\ \E k \in 1..Len(visited) : ~visited[k].some
    /\ points[1] # points[2]

\* the frame bev_pub publishes for input frame m, as a function of m alone
C9_Expected(m) ==
    LET kept == SelectSeq(DecodeAll(m), LAMBDA p : InWindow(p.z, Z_LOW, Z_HIGH))
        bev == [k \in 1..Len(kept) |-> [kept[k] EXCEPT !.z = F32_ZERO]]
    IN [header |-> [stamp |-> m.header.stamp,
                    frame_id |-> m.header.frame_id \o << "_", "b", "e", "v" >>],
        height |-> 1, width |-> Len(bev), fields |-> Fields, is_bigendian |-> FALSE,
        point_step |-> 26, row_step |-> 26 * Len(bev),
        data |-> Flatten([k \in 1..Len(bev) |-> to_bytes(bev[k])]),
        is_dense |-> TRUE]

(* C9: bev_pub makes exactly one publish attempt per received frame, also when
   no point survives the filter; the frame id is the input's followed by
   "_bev"; and the published message is a function of the input frame alone,
   whatever was received before and whether or not an earlier publish failed. *)
C9_OnePublishPerFrame ==
    node = "bev_pub" =>
        /\ pc \in { "idle", "done" } => attempts = received
        /\ pc \in { "scan", "parsed" } => attempts + 1 = received
        /\ pc = "done" =>
              /\ result \in { "Ok", "Err" }
              /\ out.header.frame_id = msg.header.frame_id \o << "_", "b", "e", "v" >>
              /\ out = C9_Expected(msg)

C9_Witness ==
    /\ BevDone
    /\ received = 2
    /\ attempts = 2
    /\ failed
    /\ bev_points = << >>
    /\ out.width = 0
    /\ msg.header.frame_id # << >>

RECURSIVE SumCounts(_)
SumCounts(lines) == IF lines = << >> THEN 0 ELSE Head(lines)[2] + SumCounts(Tail(lines))

LineIds(pts) == { pts[k].line : k \in 1..Len(pts) }
CountOf(pts, l) == Cardinality({ k \in 1..Len(pts) : pts[k].line = l })
Listed(lines) == { lines[k][1] : k \in 1..Len(lines) }

(* C10 as stated: for a non-empty decoded sequence the per-line report lists
   every line id that occurs exactly once, ascending, with its record count,
   so that the counts sum to the number of records. *)
C10_EveryLineListed ==
    (ScanDone /\ points # << >>) =>
        /\ Listed(printed.lines) = LineIds(points)
        /\ \A k \in 1..Len(printed.lines) :
              /\ k > 1 => printed.lines[k - 1][1] < printed.lines[k][1]
              /\ printed.lines[k][2] = CountOf(points, printed.lines[k][1])
        /\ SumCounts(printed.lines) = Len(points)

(* C10, amended: the per-line report lists the (at most) ten smallest line ids
   that occur, each exactly once, in strictly ascending order, each with the
   number of records carrying it; the remaining line ids are reported only as
   a number of further lines, so the listed counts sum to the record count
   exactly when at most ten distinct line ids occur; the decoded sequence is
   left unchanged. *)
C10_FirstTenLines ==
    (ScanDone /\ points # << >>) =>
        /\ Listed(printed.lines) \subseteq LineIds(points)
        /\ Len(printed.lines) =
              (IF Cardinality(LineIds(points)) < 10
               THEN Cardinality(LineIds(points)) ELSE 10)
        /\ \A k \in 1..Len(printed.lines) :
              /\ k > 1 => printed.lines[k - 1][1] < printed.lines[k][1]
              /\ printed.lines[k][2] = CountOf(points, printed.lines[k][1])
        /\ \A l \in LineIds(points) \ Listed(printed.lines) :
              \A k \in 1..Len(printed.lines) : printed.lines[k][1] < l
        /\ printed.more_lines = Cardinality(LineIds(points) \ Listed(printed.lines))
        /\ (SumCounts(printed.lines) = Len(points))
              <=> (Cardinality(LineIds(points)) <= 10)
        /\ points = DecodeAll(msg)

C10_Witness ==
    /\ ScanDone
    /\ Len(printed.lines) >= 2
    /\ \E k \in 1..Len(printed.lines) : printed.lines[k][2] >= 2
    /\ printed.more_lines = 0

====
